---------------------------- MODULE Spec2Model ----------------------------
(***************************************************************************)
(* x11stream OLED status display: a model of oled_display.py (module       *)
(* start-up, check_i2c_available, init_display, the two status providers,   *)
(* display_info and the polling loop of main).                              *)
(*                                                                          *)
(* Python strings are modelled as sequences of one-character strings, so    *)
(* that lower(), strip(), split('.') and int() are computed and not         *)
(* assumed.  Python's None is the one-element sequence <<"None">>, which    *)
(* no character sequence equals.                                            *)
(***************************************************************************)
EXTENDS Integers, Sequences, FiniteSets, TLC

(***************************************************************************)
(* Bounds of the model.                                                     *)
(***************************************************************************)
\* Iterations of the `while True` loop of main that a behaviour may start.
MaxIters == 3

\* The same, for the behaviours that start from a configured installation.
MaxConfigIters == 1

\* The longest buffer that a caller hands to a CP2112I2CBus method.
MaxLen == 3

\* The SIGINTs of a behaviour that Python discards (see Interrupt).
MaxDiscarded == 1

(***************************************************************************)
(* Strings.                                                                 *)
(***************************************************************************)
None == <<"None">>

\* str.lower(), one character at a time: the upper-case letters of ASCII
\* (A to Z) and of Latin-1 (U+00C0 to U+00DE, the sign U+00D7 excepted);
\* every other character up to U+00FF is its own lower case.
LowerChar(c) ==
    CASE c = "A" -> "a" [] c = "B" -> "b" [] c = "C" -> "c" [] c = "D" -> "d"
      [] c = "E" -> "e" [] c = "F" -> "f" [] c = "G" -> "g" [] c = "H" -> "h"
      [] c = "I" -> "i" [] c = "J" -> "j" [] c = "K" -> "k" [] c = "L" -> "l"
      [] c = "M" -> "m" [] c = "N" -> "n" [] c = "O" -> "o" [] c = "P" -> "p"
      [] c = "Q" -> "q" [] c = "R" -> "r" [] c = "S" -> "s" [] c = "T" -> "t"
      [] c = "U" -> "u" [] c = "V" -> "v" [] c = "W" -> "w" [] c = "X" -> "x"
      [] c = "Y" -> "y" [] c = "Z" -> "z" [] c = "À" -> "à" [] c = "Á" -> "á"
      [] c = "Â" -> "â" [] c = "Ã" -> "ã" [] c = "Ä" -> "ä" [] c = "Å" -> "å"
      [] c = "Æ" -> "æ" [] c = "Ç" -> "ç" [] c = "È" -> "è" [] c = "É" -> "é"
      [] c = "Ê" -> "ê" [] c = "Ë" -> "ë" [] c = "Ì" -> "ì" [] c = "Í" -> "í"
      [] c = "Î" -> "î" [] c = "Ï" -> "ï" [] c = "Ð" -> "ð" [] c = "Ñ" -> "ñ"
      [] c = "Ò" -> "ò" [] c = "Ó" -> "ó" [] c = "Ô" -> "ô" [] c = "Õ" -> "õ"
      [] c = "Ö" -> "ö" [] c = "Ø" -> "ø" [] c = "Ù" -> "ù" [] c = "Ú" -> "ú"
      [] c = "Û" -> "û" [] c = "Ü" -> "ü" [] c = "Ý" -> "ý" [] c = "Þ" -> "þ"
      [] OTHER -> c

Lower(s) == [i \in 1..Len(s) |-> LowerChar(s[i])]

\* The characters int() skips around a literal: tab, line feed, U+000B,
\* form feed, carriage return, space, U+0085 and U+00A0.
IntSpace ==
    {"\t", "\n", "", "\f", "\r", " ", "", " "}

\* str.isspace() of one character, which str.strip() and str.split() use:
\* the characters above and the separators U+001C, U+001D, U+001E, U+001F.
IsSpace(c) == c \in IntSpace \cup {"", "", "", ""}

RECURSIVE LStrip(_)
LStrip(s) == IF s # <<>> /\ IsSpace(Head(s)) THEN LStrip(Tail(s)) ELSE s

RECURSIVE RStrip(_)
RStrip(s) ==
    IF s # <<>> /\ IsSpace(s[Len(s)]) THEN RStrip(SubSeq(s, 1, Len(s) - 1)) ELSE s

\* str.strip()
Strip(s) == RStrip(LStrip(s))

\* str.split(sep) for a one-character separator: the fields between the
\* separators, empty fields included.
RECURSIVE SplitOn(_, _, _)
SplitOn(s, sep, cur) ==
    IF s = <<>> THEN <<cur>>
    ELSE IF Head(s) = sep THEN <<cur>> \o SplitOn(Tail(s), sep, <<>>)
    ELSE SplitOn(Tail(s), sep, Append(cur, Head(s)))

Split(s, sep) == SplitOn(s, sep, <<>>)

\* The value of a digit character, -1 for a character that is no digit.
DigitVal(c) ==
    CASE c = "0" -> 0 [] c = "1" -> 1 [] c = "2" -> 2 [] c = "3" -> 3
      [] c = "4" -> 4 [] c = "5" -> 5 [] c = "6" -> 6 [] c = "7" -> 7
      [] c = "8" -> 8 [] c = "9" -> 9
      [] c \in {"a", "A"} -> 10 [] c \in {"b", "B"} -> 11
      [] c \in {"c", "C"} -> 12 [] c \in {"d", "D"} -> 13
      [] c \in {"e", "E"} -> 14 [] c \in {"f", "F"} -> 15
      [] OTHER -> -1

IsDigit(c, base) == DigitVal(c) >= 0 /\ DigitVal(c) < base

RECURSIVE DigitsValue(_, _, _)
DigitsValue(s, base, acc) ==
    IF s = <<>> THEN acc
    ELSE IF Head(s) = "_" THEN DigitsValue(Tail(s), base, acc)
    ELSE DigitsValue(Tail(s), base, acc * base + DigitVal(Head(s)))

\* The digit part of an int() literal: digits, with single underscores
\* between digits (or, after a base prefix, before the first digit).
DigitsOk(s, base, afterPrefix) ==
    /\ s # <<>>
    /\ \A i \in 1..Len(s) : s[i] = "_" \/ IsDigit(s[i], base)
    /\ s[Len(s)] # "_"
    /\ (s[1] = "_" => afterPrefix)
    /\ \A i \in 1..(Len(s) - 1) : ~(s[i] = "_" /\ s[i + 1] = "_")

\* The literal of int(s, base), with the whitespace around it skipped.
RECURSIVE IntLStrip(_)
IntLStrip(s) == IF s # <<>> /\ Head(s) \in IntSpace THEN IntLStrip(Tail(s)) ELSE s

RECURSIVE IntRStrip(_)
IntRStrip(s) ==
    IF s # <<>> /\ s[Len(s)] \in IntSpace
    THEN IntRStrip(SubSeq(s, 1, Len(s) - 1))
    ELSE s

\* int(s, base) for base 10 and 16: [ok |-> FALSE] stands for ValueError.
ParseInt(str, base) ==
    LET s    == IntRStrip(IntLStrip(str))
        neg  == s # <<>> /\ s[1] = "-"
        t    == IF s # <<>> /\ s[1] \in {"+", "-"} THEN Tail(s) ELSE s
        pre  == base = 16 /\ Len(t) >= 2 /\ t[1] = "0" /\ t[2] \in {"x", "X"}
        body == IF pre THEN SubSeq(t, 3, Len(t)) ELSE t
    IN  IF DigitsOk(body, base, pre)
        THEN [ok |-> TRUE,
              val |-> IF neg THEN 0 - DigitsValue(body, base, 0)
                      ELSE DigitsValue(body, base, 0)]
        ELSE [ok |-> FALSE, val |-> 0]

\* str.split() with no separator: the fields between runs of whitespace.
RECURSIVE SplitWsFrom(_, _)
SplitWsFrom(s, cur) ==
    IF s = <<>> THEN (IF cur = <<>> THEN <<>> ELSE <<cur>>)
    ELSE IF IsSpace(Head(s))
         THEN (IF cur = <<>> THEN <<>> ELSE <<cur>>) \o SplitWsFrom(Tail(s), <<>>)
         ELSE SplitWsFrom(Tail(s), Append(cur, Head(s)))

SplitWs(s) == SplitWsFrom(s, <<>>)

\* str.upper() is only used to print and to name the driver class.

(***************************************************************************)
(* Exceptions: an exception is the name of its class, and an except clause  *)
(* matches it by the classes that class derives from.                       *)
(***************************************************************************)
\* The classes an exception class derives from directly: the built-in
\* exception hierarchy of Python and that of subprocess.  A class that is
\* not named here derives from Exception, as a library's own errors do.
Parents(e) ==
    CASE e = "BaseException" -> {}
      [] e \in {"BaseExceptionGroup", "Exception", "GeneratorExit",
                "KeyboardInterrupt", "SystemExit"}
            -> {"BaseException"}
      [] e \in {"FloatingPointError", "OverflowError", "ZeroDivisionError"}
            -> {"ArithmeticError"}
      [] e \in {"ExceptionGroup"}
            -> {"BaseExceptionGroup", "Exception"}
      [] e \in {"BrokenPipeError", "ConnectionAbortedError",
                "ConnectionRefusedError", "ConnectionResetError"}
            -> {"ConnectionError"}
      [] e \in {"ModuleNotFoundError"}
            -> {"ImportError"}
      [] e \in {"TabError"}
            -> {"IndentationError"}
      [] e \in {"IndexError", "KeyError"}
            -> {"LookupError"}
      [] e \in {"UnboundLocalError"}
            -> {"NameError"}
      [] e \in {"BlockingIOError", "ChildProcessError", "ConnectionError",
                "FileExistsError", "FileNotFoundError", "InterruptedError",
                "IsADirectoryError", "NotADirectoryError",
                "PermissionError", "ProcessLookupError", "TimeoutError"}
            -> {"OSError"}
      [] e \in {"NotImplementedError", "RecursionError"}
            -> {"RuntimeError"}
      [] e \in {"CalledProcessError", "TimeoutExpired"}
            -> {"SubprocessError"}
      [] e \in {"IndentationError"}
            -> {"SyntaxError"}
      [] e \in {"UnicodeDecodeError", "UnicodeEncodeError",
                "UnicodeTranslateError"}
            -> {"UnicodeError"}
      [] e \in {"UnicodeError"}
            -> {"ValueError"}
      [] e \in {"BytesWarning", "DeprecationWarning", "EncodingWarning",
                "FutureWarning", "ImportWarning",
                "PendingDeprecationWarning", "ResourceWarning",
                "RuntimeWarning", "SyntaxWarning", "UnicodeWarning",
                "UserWarning"}
            -> {"Warning"}
      [] OTHER -> {"Exception"}

\* IOError and EnvironmentError are other names of OSError.
ClassOf(name) == IF name \in {"EnvironmentError", "IOError"} THEN "OSError" ELSE name

\* The classes an exception of class e is an instance of.
RECURSIVE Ancestors(_)
Ancestors(e) == {e} \cup UNION {Ancestors(p) : p \in Parents(e)}

Bases(e) == Ancestors(ClassOf(e))

\* isinstance(e, classes), as an except clause tests it.
IsInstance(e, classes) == Bases(e) \cap {ClassOf(c) : c \in classes} # {}

\* The result of a call: a returned value, or a raised exception.
Return(v) == [raised |-> "none", value |-> v]
Raise(e) == [raised |-> e, value |-> None]

\* subprocess.run(...): a completed process, or an exception.
Completed(rc, out) == [exc |-> "none", returncode |-> rc, stdout |-> out]
RunRaises(e) == [exc |-> e, returncode |-> 0, stdout |-> <<>>]

(***************************************************************************)
(* The status providers.                                                    *)
(***************************************************************************)
NoIP == <<"N", "o", " ", "I", "P">>
Streaming == <<"S", "t", "r", "e", "a", "m", "i", "n", "g">>
Stopped == <<"S", "t", "o", "p", "p", "e", "d">>
Unknown == <<"U", "n", "k", "n", "o", "w", "n">>
active == <<"a", "c", "t", "i", "v", "e">>

\* The exception classes both providers catch.
ProviderCaught == {"SubprocessError", "FileNotFoundError", "OSError"}

\* `len(octets) == 4 and all(0 <= int(o) <= 255 for o in octets)`, with the
\* ValueError of int() caught: the address is then not returned.
ValidIPv4(ip) ==
    LET octets == Split(ip, ".")
    IN  /\ Len(octets) = 4
        /\ \A i \in 1..4 :
              /\ ParseInt(octets[i], 10).ok
              /\ ParseInt(octets[i], 10).val >= 0
              /\ ParseInt(octets[i], 10).val <= 255

\* get_local_ip(), given what `ip route get 1` and `hostname -I` do.
get_local_ip(route, host) ==
    IF route.exc # "none"
    THEN (IF IsInstance(route.exc, ProviderCaught) THEN Return(NoIP)
          ELSE Raise(route.exc))
    ELSE LET parts == SplitWs(route.stdout)
         IN  IF route.returncode = 0 /\ Len(parts) >= 7 /\ ValidIPv4(parts[7])
             THEN Return(parts[7])
             ELSE IF host.exc # "none"
             THEN (IF IsInstance(host.exc, ProviderCaught) THEN Return(NoIP)
                   ELSE Raise(host.exc))
             ELSE LET ips == SplitWs(Strip(host.stdout))
                  IN  IF host.returncode = 0 /\ ips # <<>>
                      THEN Return(ips[1])
                      ELSE Return(NoIP)

\* get_stream_status(), given what `systemctl is-active` and `pgrep` do.
get_stream_status(systemctl, pgrep) ==
    IF systemctl.exc = "none"
    THEN (IF systemctl.returncode = 0 /\ Strip(systemctl.stdout) = active
          THEN Return(Streaming)
          ELSE Return(Stopped))
    ELSE IF ~IsInstance(systemctl.exc, ProviderCaught)
    THEN Raise(systemctl.exc)
    ELSE IF pgrep.exc = "none"
    THEN (IF pgrep.returncode = 0 THEN Return(Streaming) ELSE Return(Unknown))
    ELSE IF IsInstance(pgrep.exc, ProviderCaught)
    THEN Return(Unknown)
    ELSE Raise(pgrep.exc)

\* What the four commands may do.
Addr5 == <<"1", "0", ".", "0", ".", "0", ".", "5">>
BadAddr == <<"3", "0", "0", ".", "0", ".", "0", ".", "5">>
RouteLine(src) ==
    <<"1", " ", "v", " ", "g", " ", "d", " ", "e", " ", "s", " ">> \o src
        \o <<" ", "u", "\n">>

RouteOutcomes ==
    { Completed(0, RouteLine(Addr5)),
      Completed(0, RouteLine(BadAddr)),
      Completed(0, <<"u", "\n">>),
      Completed(2, <<>>),
      RunRaises("TimeoutExpired"),
      RunRaises("UnicodeDecodeError") }

HostOutcomes ==
    { Completed(0, Addr5 \o <<" ", "\n">>),
      Completed(0, <<"\n">>),
      Completed(1, <<>>),
      RunRaises("FileNotFoundError"),
      RunRaises("UnicodeDecodeError") }

SystemctlOutcomes ==
    { Completed(0, active \o <<"\r", "\n">>),
      Completed(3, <<"i", "n">> \o active \o <<"\n">>),
      RunRaises("FileNotFoundError"),
      RunRaises("UnicodeDecodeError") }

PgrepOutcomes ==
    { Completed(0, <<"7", "\n">>),
      Completed(1, <<>>),
      RunRaises("PermissionError"),
      RunRaises("UnicodeDecodeError") }

(***************************************************************************)
(* Configuration: the module-level code of oled_display.py.                 *)
(***************************************************************************)
sh1106 == <<"s", "h", "1", "1", "0", "6">>
ssd1306 == <<"s", "s", "d", "1", "3", "0", "6">>
ssd1305 == <<"s", "s", "d", "1", "3", "0", "5">>
ssd1309 == <<"s", "s", "d", "1", "3", "0", "9">>

\* The driver names the module tries to import a library for.
DriverNames == {ssd1306, sh1106, ssd1305, ssd1309}

\* os.environ.get(key, default)
EnvGet(env, key, default) == IF key \in DOMAIN env THEN env[key] ELSE default

\* The values of the environment, when no variable is set.
DefaultDriver == sh1106
DefaultAddress == <<"0", "x", "3", "C">>
DefaultUseMux == <<"f", "a", "l", "s", "e">>
DefaultMuxAddress == <<"0", "x", "7", "0">>
DefaultMuxChannel == <<"0">>

\* The strings that enable the multiplexer.
TrueWords == {<<"t", "r", "u", "e">>, <<"1">>, <<"y", "e", "s">>}

VARIABLES
    environ,            \* os.environ: the variables set, each a string
    importable,         \* the third-party modules an import finds
    pc,                 \* where the process is
    oled,               \* the display object of main, None before it is made
    previous_ip,        \* main: the values of the last update
    previous_status,
    consecutive_errors, \* main: the error counter
    ip_address,         \* main: the values sampled in this iteration
    status,
    exit_code,          \* the exit status of the process, -1 while it runs
    obs,                \* what an observer of the run has seen (history)
    device,             \* CP2112I2CBus.device: how the bridge answers
    call,               \* the last call of a CP2112I2CBus method, and its result
    callers,            \* the threads that use one CP2112I2CBus together
    in_flight           \* the transfers on the bridge that have not returned

vars == <<environ, importable, pc, oled, previous_ip, previous_status,
          consecutive_errors, ip_address, status, exit_code, obs,
          device, call, callers, in_flight>>

\* The variables of the process of oled_display.py, and those of a
\* CP2112I2CBus that is called directly.
procVars == <<environ, importable, pc, oled, previous_ip, previous_status,
              consecutive_errors, ip_address, status, exit_code, obs>>
busVars == <<device, call, callers, in_flight>>

\* The module-level names, as the module computes them from the environment.
OLED_DRIVER == Lower(EnvGet(environ, "OLED_DRIVER", DefaultDriver))
I2C_ADDRESS == ParseInt(EnvGet(environ, "I2C_ADDRESS", DefaultAddress), 16)
USE_MULTIPLEXER ==
    Lower(EnvGet(environ, "USE_MULTIPLEXER", DefaultUseMux)) \in TrueWords
MULTIPLEXER_ADDRESS ==
    ParseInt(EnvGet(environ, "MULTIPLEXER_ADDRESS", DefaultMuxAddress), 16)
MULTIPLEXER_CHANNEL ==
    ParseInt(EnvGet(environ, "MULTIPLEXER_CHANNEL", DefaultMuxChannel), 10)
\* The library of each driver name.
ModuleOf(d) ==
    CASE d = ssd1306 -> "adafruit_ssd1306"
      [] d = sh1106  -> "adafruit_sh1106"
      [] d = ssd1305 -> "adafruit_ssd1305"
      [] d = ssd1309 -> "adafruit_ssd1309"
      [] OTHER       -> "none"

\* The keys of DRIVER_MODULES: the drivers whose library was imported.
DRIVER_MODULES == {d \in DriverNames : ModuleOf(d) \in importable}

\* main: the retry bound.
max_retries == 3

\* The statements of main inside the outer `try` (lines 345-374).
InTry == {"sample", "status", "compare", "render", "update", "update_status",
          "reset", "sleep", "except", "counted", "retry_wait"}

\* The statements before the outer `try`: an exception there is not handled.
BeforeTry == {"import", "main", "init", "setup"}

\* The handler of line 385, `except Exception` of the outer `try`: an
\* exception there is not handled either.
InFatal == {"fatal"}

(***************************************************************************)
(* History: what the run has done so far.  The program does not read it;    *)
(* only the bound on the iterations does.                                   *)
(***************************************************************************)
ObsInit ==
    [ limit         |-> MaxIters,  \* iterations this behaviour may start
      check         |-> "unchecked",  \* what find_devices gave check_i2c_available
      samples       |-> 0,       \* iterations that sampled both values
      same          |-> TRUE,    \* all those samples were the same pair
      sampled       |-> <<None, None>>,  \* the last pair sampled
      renders       |-> 0,       \* calls of display_info
      last_rendered |-> <<None, None>>,  \* the pair of the last call
      shown         |-> <<None, None>>,  \* the pair of the last call that succeeded
      fail_streak   |-> 0,       \* calls that failed since the last success
      errors_before |-> 0,       \* consecutive_errors when display_info was called
      branch        |-> "none",  \* this iteration: "render", "skip" or "raised"
      interrupts    |-> 0,       \* SIGINTs delivered
      cancelled_at  |-> "none",  \* where the first one arrived
      discarded     |-> 0,       \* those whose KeyboardInterrupt Python discarded
      uncaught      |-> FALSE,   \* a KeyboardInterrupt left main unhandled
      blanks        |-> 0,       \* attempts to blank the display on exit
      blank_failed  |-> FALSE,   \* the attempt raised an Exception (line 382)
      blank_exc     |-> "none",  \* the class of what the attempt raised
      exhausted     |-> FALSE,   \* main gave up after max_retries errors
      queried       |-> {},      \* the providers called since the loop head
      after_retry   |-> FALSE,   \* this iteration began after the retry delay
      skipped_in_streak |-> FALSE ]  \* an iteration with errors counted
                                 \* changed nothing and slept

Exit(code) == /\ pc' = "exited"
              /\ exit_code' = code

(***************************************************************************)
(* Start-up.                                                                *)
(***************************************************************************)
\* The module-level code runs to its end: the imports succeed, a driver
\* library is there, and the three int() calls raise no ValueError.
ModuleLoads ==
    /\ "cp2112" \in importable
    /\ "PIL" \in importable
    /\ DRIVER_MODULES # {}
    /\ I2C_ADDRESS.ok
    /\ MULTIPLEXER_ADDRESS.ok
    /\ MULTIPLEXER_CHANNEL.ok

\* Lines 18-90: sys.exit(1) or an uncaught ImportError or ValueError
\* (status 1 as well) when the module does not load; main() otherwise.
ModuleInit ==
    /\ pc = "import"
    /\ IF ModuleLoads
       THEN pc' = "main" /\ exit_code' = exit_code
       ELSE Exit(1)
    /\ UNCHANGED busVars
    /\ UNCHANGED <<environ, importable, oled, previous_ip, previous_status,
                   consecutive_errors, ip_address, status, obs>>

\* What cp2112.find_devices() may do.
FindOutcomes == {"some", "none", "raise"}

\* A variant that tests `devices is None` and so accepts an empty list.
check_i2c_available_EmptyAccepted(found) == found # "raise"

\* check_i2c_available(): True iff find_devices() returned a device.
check_i2c_available(found) == found = "some"

\* main, lines 320-322.
CheckI2C ==
    /\ pc = "main"
    /\ \E found \in FindOutcomes :
          /\ obs' = [obs EXCEPT !.check = found]
          /\ IF check_i2c_available(found)
             THEN pc' = "init" /\ exit_code' = exit_code
             ELSE Exit(1)
    /\ UNCHANGED busVars
    /\ UNCHANGED <<environ, importable, oled, previous_ip, previous_status,
                   consecutive_errors, ip_address, status>>

\* What making the multiplexer and selecting its channel may do, once its
\* library is imported (lines 248-250).
MuxOutcomes == {"ok", "Exception"}

\* Lines 242-263: the bus the display is driven through.  The multiplexer's
\* channel when the multiplexer is enabled, its library is there and its
\* set-up succeeded; otherwise a warning, and the bridge itself.
SelectBus(mux) ==
    IF USE_MULTIPLEXER /\ "adafruit_tca9548a" \in importable /\ mux = "ok"
    THEN "multiplexer"
    ELSE "direct"

\* A variant that does not validate the driver name.
init_display_AnyDriver(found, opened, mux, driven) ==
    IF found # "some" THEN None
    ELSE IF ~opened THEN None
    ELSE IF ~driven THEN None
    ELSE <<"oled", SelectBus(mux)>>

\* init_display(): the display, or None.
init_display(found, opened, mux, driven) ==
    IF OLED_DRIVER \notin DRIVER_MODULES THEN None
    ELSE IF found # "some" THEN None
    ELSE IF ~opened THEN None
    ELSE IF ~driven THEN None
    ELSE <<"oled", SelectBus(mux)>>

\* main, lines 327-330.
InitDisplay ==
    /\ pc = "init"
    /\ \E found \in FindOutcomes, opened \in BOOLEAN,
          mux \in MuxOutcomes, driven \in BOOLEAN :
          /\ oled' = init_display(found, opened, mux, driven)
          /\ IF oled' = None
             THEN Exit(1)
             ELSE pc' = "setup" /\ exit_code' = exit_code
    /\ UNCHANGED busVars
    /\ UNCHANGED <<environ, importable, previous_ip, previous_status,
                   consecutive_errors, ip_address, status, obs>>

\* main, lines 332-345: the display is made, the locals of the loop are set
\* and the outer `try` is entered.
Setup ==
    /\ pc = "setup"
    /\ previous_ip' = None
    /\ previous_status' = None
    /\ consecutive_errors' = 0
    /\ pc' = "sample"
    /\ UNCHANGED busVars
    /\ UNCHANGED <<environ, importable, oled, ip_address, status, exit_code, obs>>

(***************************************************************************)
(* The loop of main.                                                        *)
(***************************************************************************)
Sampled == <<ip_address, status>>

\* Line 349.
SampleIp ==
    /\ pc = "sample"
    /\ obs.samples < obs.limit
    /\ \E route \in RouteOutcomes, host \in HostOutcomes :
          LET r == get_local_ip(route, host)
          IN  IF r.raised = "none"
              THEN /\ ip_address' = r.value
                   /\ pc' = "status"
                   /\ obs' = [obs EXCEPT !.branch = "none",
                                         !.queried = @ \cup {"ip"}]
              ELSE /\ ip_address' = ip_address
                   /\ pc' = "except"
                   /\ obs' = [obs EXCEPT !.branch = "raised"]
    /\ UNCHANGED busVars
    /\ UNCHANGED <<environ, importable, oled, previous_ip, previous_status,
                   consecutive_errors, status, exit_code>>

\* Line 350.
SampleStatus ==
    /\ pc = "status"
    /\ \E systemctl \in SystemctlOutcomes, pgrep \in PgrepOutcomes :
          LET r == get_stream_status(systemctl, pgrep)
          IN  IF r.raised = "none"
              THEN /\ status' = r.value
                   /\ pc' = "compare"
                   /\ obs' = [obs EXCEPT
                         !.samples = @ + 1,
                         !.same = (obs.samples = 0)
                                    \/ (@ /\ obs.sampled = <<ip_address, r.value>>),
                         !.sampled = <<ip_address, r.value>>,
                         !.queried = @ \cup {"status"}]
              ELSE /\ status' = status
                   /\ pc' = "except"
                   /\ obs' = [obs EXCEPT !.branch = "raised"]
    /\ UNCHANGED busVars
    /\ UNCHANGED <<environ, importable, oled, previous_ip, previous_status,
                   consecutive_errors, ip_address, exit_code>>

\* A variant that looks at the address only.
Changed_OnlyIp(ip, st, prev_ip, prev_st) == ip # prev_ip

\* A variant that compares the status with the previous address.
Changed_StatusAgainstIp(ip, st, prev_ip, prev_st) == ip # prev_ip \/ st # prev_ip

\* Line 353: the display is updated when a value has changed.
Changed(ip, st, prev_ip, prev_st) == ip # prev_ip \/ st # prev_st

Compare ==
    /\ pc = "compare"
    /\ IF Changed(ip_address, status, previous_ip, previous_status)
       THEN pc' = "render" /\ obs' = [obs EXCEPT !.branch = "render"]
       ELSE pc' = "sleep"
            /\ obs' = [obs EXCEPT !.branch = "skip",
                                  !.skipped_in_streak = @ \/ consecutive_errors > 0]
    /\ UNCHANGED busVars
    /\ UNCHANGED <<environ, importable, oled, previous_ip, previous_status,
                   consecutive_errors, ip_address, status, exit_code>>

\* What drawing the image and sending it over the bus may raise.
DisplayOutcomes == {"none", "OSError", "RuntimeError"}

\* display_info(): `except Exception` around the whole body, so whatever the
\* drawing or the bus raises is printed and the function returns.
display_info(exc) ==
    IF exc = "none" THEN Return(None)
    ELSE IF IsInstance(exc, {"Exception"}) THEN Return(None)
    ELSE Raise(exc)

\* Line 354.
Render ==
    /\ pc = "render"
    /\ \E exc \in DisplayOutcomes :
          /\ pc' = IF display_info(exc).raised = "none" THEN "update" ELSE "except"
          /\ obs' = [obs EXCEPT
                !.renders = @ + 1,
                !.last_rendered = Sampled,
                !.shown = IF exc = "none" THEN Sampled ELSE @,
                !.fail_streak = IF exc = "none" THEN 0
                               ELSE IF @ < max_retries THEN @ + 1 ELSE @,
                !.errors_before = consecutive_errors]
    /\ UNCHANGED busVars
    /\ UNCHANGED <<environ, importable, oled, previous_ip, previous_status,
                   consecutive_errors, ip_address, status, exit_code>>

\* A variant that does not reset the counter.
ErrorsAfterUpdate_Kept(errors) == errors

\* Line 358: the counter after an update.
ErrorsAfterUpdate(errors) == 0

\* Line 355.
Update ==
    /\ pc = "update"
    /\ previous_ip' = ip_address
    /\ pc' = "update_status"
    /\ UNCHANGED busVars
    /\ UNCHANGED <<environ, importable, oled, previous_status,
                   consecutive_errors, ip_address, status, exit_code, obs>>

\* Line 356.
UpdateStatus ==
    /\ pc = "update_status"
    /\ previous_status' = status
    /\ pc' = "reset"
    /\ UNCHANGED busVars
    /\ UNCHANGED <<environ, importable, oled, previous_ip,
                   consecutive_errors, ip_address, status, exit_code, obs>>

\* Line 358.
ResetErrors ==
    /\ pc = "reset"
    /\ consecutive_errors' = ErrorsAfterUpdate(consecutive_errors)
    /\ pc' = "sleep"
    /\ obs' = [obs EXCEPT !.skipped_in_streak = FALSE]
    /\ UNCHANGED busVars
    /\ UNCHANGED <<environ, importable, oled, previous_ip, previous_status,
                   ip_address, status, exit_code>>

\* Line 361.
Sleep ==
    /\ pc = "sleep"
    /\ pc' = "sample"
    /\ obs' = [obs EXCEPT !.queried = {}, !.after_retry = FALSE]
    /\ UNCHANGED busVars
    /\ UNCHANGED <<environ, importable, oled, previous_ip, previous_status,
                   consecutive_errors, ip_address, status, exit_code>>

\* A variant that gives up one error later.
Exhausted_OneLate(errors) == errors > max_retries

\* Line 368: the test that ends the retries.
Exhausted(errors) == errors >= max_retries

\* Lines 363-365: the handler of the loop body counts the error.
Except ==
    /\ pc = "except"
    /\ consecutive_errors' = consecutive_errors + 1
    /\ pc' = "counted"
    /\ UNCHANGED busVars
    /\ UNCHANGED <<environ, importable, oled, previous_ip, previous_status,
                   ip_address, status, exit_code, obs>>

\* Lines 366-373: at max_retries the handler raises the error again, to the
\* outer handler of line 385; below, it goes on to the retry delay.
RetryOrRaise ==
    /\ pc = "counted"
    /\ IF Exhausted(consecutive_errors)
       THEN pc' = "fatal" /\ obs' = [obs EXCEPT !.exhausted = TRUE]
       ELSE pc' = "retry_wait" /\ obs' = obs
    /\ UNCHANGED busVars
    /\ UNCHANGED <<environ, importable, oled, previous_ip, previous_status,
                   consecutive_errors, ip_address, status, exit_code>>

\* Lines 385-387: the outer handler prints the error and exits with status 1.
Fatal ==
    /\ pc = "fatal"
    /\ Exit(1)
    /\ UNCHANGED busVars
    /\ UNCHANGED <<environ, importable, oled, previous_ip, previous_status,
                   consecutive_errors, ip_address, status, obs>>

\* A variant that tries the display again with the values it has.
AfterRetryWait_Render == "render"

\* Where the loop goes on after time.sleep(retry_delay): the end of the
\* handler is the end of the loop body, and `while True` starts it again at
\* line 349.
AfterRetryWait == "sample"

\* Line 374.
RetryWait ==
    /\ pc = "retry_wait"
    /\ pc' = AfterRetryWait
    /\ obs' = [obs EXCEPT !.queried = {}, !.after_retry = TRUE]
    /\ UNCHANGED busVars
    /\ UNCHANGED <<environ, importable, oled, previous_ip, previous_status,
                   consecutive_errors, ip_address, status, exit_code>>

(***************************************************************************)
(* Cancellation: SIGINT, which Python raises as KeyboardInterrupt in the    *)
(* statement that is running.                                               *)
(***************************************************************************)
\* Where a KeyboardInterrupt raised at `at` is handled: by the clause of
\* line 376 inside the outer `try`, by nothing elsewhere.
HandledAt(at) == at \in InTry

\* Where a SIGINT can be lost: where the Popen object of a finished command
\* is finalised.  When the signal arrives then, the KeyboardInterrupt is
\* raised inside Popen.__del__, where Python prints and discards it.  That
\* is in the four subprocess.run calls of the providers (lines 107, 128,
\* 150, 165, called from lines 349 and 350), and, when a provider raised an
\* exception into main, at the end of the handler of line 363: the
\* traceback of `e` keeps the Popen object until the retry delay of line 374
\* is over.
Discardable(at) == at \in {"sample", "status", "retry_wait"}

\* sys.exit(code) and an uncaught SystemExit(code): the status of the
\* process is 0 for None, the low eight bits of an integer, and 1 (with the
\* object printed) for anything else.
NoCode == [kind |-> "none", val |-> 0]
IntCode(n) == [kind |-> "int", val |-> n]
TextCode == [kind |-> "str", val |-> 0]

ExitStatus(code) ==
    CASE code.kind = "none" -> 0
      [] code.kind = "int"  -> code.val % 256
      [] OTHER              -> 1

\* What oled.fill(0); oled.show() may do on exit: return, or raise an
\* exception (a SystemExit with its code).
Blank(exc, code) == [exc |-> exc, code |-> code]

BlankOutcomes ==
    { Blank("none", NoCode),
      Blank("OSError", NoCode),
      Blank("SystemExit", IntCode(2)),
      Blank("SystemExit", TextCode),
      Blank("GeneratorExit", NoCode) }

\* The errors of the blanking that line 382 catches.
BlankErrors == {o.exc : o \in {b \in BlankOutcomes : b.exc # "none"
                                      /\ IsInstance(b.exc, {"Exception"})}}

\* A variant without the `try` around the blanking.
ExitAfterBlank_Unguarded(exc, code) == IF exc = "none" THEN 0 ELSE 1

\* Lines 379-384: the status main exits with after trying to blank.  What
\* `except Exception` does not catch leaves main: a SystemExit ends the
\* process with its own status, a KeyboardInterrupt with the status of
\* SIGINT, any other exception with a traceback and status 1.
ExitAfterBlank(exc, code) ==
    IF exc = "none" \/ IsInstance(exc, {"Exception"}) THEN 0
    ELSE IF IsInstance(exc, {"SystemExit"}) THEN ExitStatus(code)
    ELSE IF IsInstance(exc, {"KeyboardInterrupt"}) THEN 130
    ELSE 1

\* How far the handler of line 376 has come when a further SIGINT arrives:
\* before the blanking (line 377), during it (the KeyboardInterrupt comes
\* out of fill or show), after it returned (line 384), or after it raised
\* an error that line 382 caught (line 383).
HandlerProgress == {"before", "during", "returned"} \cup BlankErrors

\* A SIGINT.  Python raises KeyboardInterrupt in the statement that runs:
\* inside the outer `try` it goes to the handler of line 376; elsewhere
\* nothing handles it and the process ends with status 130, in the handler
\* of line 376 before, during or after the blanking.  Where a Popen object
\* is finalised the KeyboardInterrupt may also be discarded, and the
\* statement goes on.
Interrupt ==
    /\ pc # "exited"
    /\ \E lost \in {l \in BOOLEAN : l => (Discardable(pc)
                                            /\ obs.discarded < MaxDiscarded)},
          progress \in HandlerProgress :
          LET seen == [obs EXCEPT !.interrupts = @ + 1,
                         !.cancelled_at = IF @ = "none" THEN pc ELSE @]
          IN  IF lost
              THEN /\ pc' = pc
                   /\ exit_code' = exit_code
                   /\ obs' = [seen EXCEPT !.discarded = @ + 1]
              ELSE IF HandledAt(pc)
              THEN /\ pc' = "interrupt"
                   /\ exit_code' = exit_code
                   /\ obs' = seen
              ELSE IF pc = "interrupt"
              THEN /\ Exit(IF progress = "during"
                           THEN ExitAfterBlank("KeyboardInterrupt", NoCode)
                           ELSE 130)
                   /\ obs' = [seen EXCEPT
                          !.uncaught = TRUE,
                          !.blanks = IF progress = "before" THEN @ ELSE @ + 1,
                          !.blank_failed = progress \in BlankErrors,
                          !.blank_exc =
                              IF progress \in BlankErrors THEN progress
                              ELSE IF progress = "during" THEN "KeyboardInterrupt"
                              ELSE "none"]
              ELSE /\ Exit(130)
                   /\ obs' = [seen EXCEPT !.uncaught = TRUE]
    /\ UNCHANGED busVars
    /\ UNCHANGED <<environ, importable, oled, previous_ip, previous_status,
                   consecutive_errors, ip_address, status>>

\* Lines 376-384.
InterruptHandler ==
    /\ pc = "interrupt"
    /\ \E out \in BlankOutcomes :
          /\ obs' = [obs EXCEPT
                !.blanks = @ + 1,
                !.blank_failed = out.exc \in BlankErrors,
                !.blank_exc = out.exc]
          /\ Exit(ExitAfterBlank(out.exc, out.code))
    /\ UNCHANGED busVars
    /\ UNCHANGED <<environ, importable, oled, previous_ip, previous_status,
                   consecutive_errors, ip_address, status>>

(***************************************************************************)
(* cp2112_i2c_bus.py: CP2112I2CBus, the I2C bus that the display drivers    *)
(* call.  Buffers are sequences of bytes; position i of a Python buffer is  *)
(* element i + 1 of the sequence.                                           *)
(***************************************************************************)
\* An optional argument (`end=None`): <<>> when it is not given or None,
\* <<v>> when it is v.
Absent == <<>>
Given(v) == <<v>>

\* One bound of buffer[start:end] for a buffer of n bytes: an index below
\* zero counts from the end, and the bound is clamped to 0..n.
SliceIndex(i, n) ==
    IF i < 0 THEN (IF i + n < 0 THEN 0 ELSE i + n)
    ELSE IF i > n THEN n ELSE i

\* memoryview(buffer)[start:end], as bytes.
Slice(buffer, start, end) ==
    LET lo == SliceIndex(start, Len(buffer))
        hi == SliceIndex(end, Len(buffer))
    IN  IF lo < hi THEN SubSeq(buffer, lo + 1, hi) ELSE <<>>

\* The bridge (self.device, a cp2112.CP2112Device).  The device at an
\* address in `present` acknowledges; a transfer to another address raises
\* OSError; `write_error` and `read_error` name the addresses where a
\* transfer of that direction raises an exception of another class.
WriteExc(dev, address) ==
    IF address \in dev.write_error.at THEN dev.write_error.exc
    ELSE IF address \in dev.present THEN "none"
    ELSE "OSError"

ReadExc(dev, address) ==
    IF address \in dev.read_error.at THEN dev.read_error.exc
    ELSE IF address \in dev.present THEN "none"
    ELSE "OSError"

\* The i-th byte (from 0) that a device sends.
DataByte(i) == (128 + i) % 256

\* device.write(address, data) and device.read(address, length), as the
\* transfer that the bridge sees: what was asked, and how it ended.  A read
\* that succeeds gives exactly `length` bytes.
DeviceWrite(dev, address, data) ==
    [kind |-> "write", address |-> address, length |-> Len(data),
     data |-> data, exc |-> WriteExc(dev, address)]

DeviceRead(dev, address, length) ==
    [kind |-> "read", address |-> address, length |-> length,
     data |-> IF ReadExc(dev, address) = "none"
              THEN [i \in 1..length |-> DataByte(i - 1)] ELSE <<>>,
     exc |-> ReadExc(dev, address)]

\* The outcome of a method: the transfers it made on the bridge in order,
\* the exception it raised, the value it returned, and the buffer it was
\* given to fill as the call left it.
Outcome(transfers, raised, value, buffer) ==
    [transfers |-> transfers, raised |-> raised, value |-> value,
     buffer |-> buffer]

\* A writeto that sends the whole buffer, whatever the range.
writeto_WholeBuffer(dev, address, buffer, start, end, stop) ==
    LET t == DeviceWrite(dev, address, buffer)
    IN  Outcome(<<t>>, t.exc, None, buffer)

\* A writeto that marks the write of a call with stop=False as one that
\* holds the bus.
writeto_HoldsBus(dev, address, buffer, start, end, stop) ==
    LET e == IF end = Absent THEN Len(buffer) ELSE end[1]
        t == DeviceWrite(dev, address, Slice(buffer, start, e))
    IN  Outcome(<<[t EXCEPT !.kind = IF stop THEN "write" ELSE "write_no_stop"]>>,
                t.exc, None, buffer)

\* A writeto that tries a failed write a second time.
writeto_RetryOnce(dev, address, buffer, start, end, stop) ==
    LET e == IF end = Absent THEN Len(buffer) ELSE end[1]
        t == DeviceWrite(dev, address, Slice(buffer, start, e))
    IN  IF t.exc = "none" THEN Outcome(<<t>>, t.exc, None, buffer)
        ELSE Outcome(<<t, t>>, t.exc, None, buffer)

\* writeto (lines 23-49): the slice of the buffer goes to device.write, and
\* an exception of device.write leaves the method.  `stop` is not read.
writeto(dev, address, buffer, start, end, stop) ==
    LET e == IF end = Absent THEN Len(buffer) ELSE end[1]
        t == DeviceWrite(dev, address, Slice(buffer, start, e))
    IN  Outcome(<<t>>, t.exc, None, buffer)

\* The index of buffer[k] = byte: a k below zero counts from the end; -1
\* stands for the IndexError of a k outside the buffer.
ItemIndex(k, n) ==
    IF k >= n \/ k < 0 - n THEN -1
    ELSE IF k < 0 THEN k + n ELSE k

\* `for i, byte in enumerate(data): buffer[start + i] = byte` from byte i on
\* (lines 72-73 and 127-128): the bytes stored before an IndexError stay.
RECURSIVE StoreFrom(_, _, _, _)
StoreFrom(buffer, start, data, i) ==
    IF i >= Len(data) THEN [raised |-> "none", buffer |-> buffer]
    ELSE LET k == ItemIndex(start + i, Len(buffer))
         IN  IF k < 0 THEN [raised |-> "IndexError", buffer |-> buffer]
             ELSE StoreFrom([buffer EXCEPT ![k + 1] = data[i + 1]],
                            start, data, i + 1)

\* A readfrom_into that stores the bytes from the start of the buffer.
readfrom_into_FromZero(dev, address, buffer, start, end) ==
    LET e      == IF end = Absent THEN Len(buffer) ELSE end[1]
        length == e - start
        t      == DeviceRead(dev, address, length)
        stored == StoreFrom(buffer, 0, t.data, 0)
    IN  IF length <= 0 THEN Outcome(<<>>, "none", None, buffer)
        ELSE IF t.exc # "none" THEN Outcome(<<t>>, t.exc, None, buffer)
        ELSE Outcome(<<t>>, stored.raised, None, stored.buffer)

\* readfrom_into (lines 51-73).
readfrom_into(dev, address, buffer, start, end) ==
    LET e      == IF end = Absent THEN Len(buffer) ELSE end[1]
        length == e - start
        t      == DeviceRead(dev, address, length)
        stored == StoreFrom(buffer, start, t.data, 0)
    IN  IF length <= 0 THEN Outcome(<<>>, "none", None, buffer)
        ELSE IF t.exc # "none" THEN Outcome(<<t>>, t.exc, None, buffer)
        ELSE Outcome(<<t>>, stored.raised, None, stored.buffer)

\* A writeto_then_readfrom that reads before it writes.
writeto_then_readfrom_ReadFirst(dev, address, buffer_out, buffer_in, out_start, out_end, in_start, in_end, stop) ==
    LET oe        == IF out_end = Absent THEN Len(buffer_out) ELSE out_end[1]
        out       == Slice(buffer_out, out_start, oe)
        w         == DeviceWrite(dev, address, out)
        ie        == IF in_end = Absent THEN Len(buffer_in) ELSE in_end[1]
        in_length == ie - in_start
        r         == DeviceRead(dev, address, in_length)
        read      == IF in_length > 0 THEN <<r>> ELSE <<>>
        stored    == StoreFrom(buffer_in, in_start, r.data, 0)
    IN  IF in_length > 0 /\ r.exc # "none"
        THEN Outcome(<<r>>, r.exc, None, buffer_in)
        ELSE IF in_length > 0 /\ stored.raised # "none"
        THEN Outcome(<<r>>, stored.raised, None, stored.buffer)
        ELSE IF Len(out) = 0
        THEN Outcome(read, "none", None,
                     IF in_length > 0 THEN stored.buffer ELSE buffer_in)
        ELSE Outcome(Append(read, w), w.exc, None,
                     IF in_length > 0 THEN stored.buffer ELSE buffer_in)

\* A writeto_then_readfrom that writes an empty output range as well.
writeto_then_readfrom_AlwaysWrites(dev, address, buffer_out, buffer_in, out_start, out_end, in_start, in_end, stop) ==
    LET oe        == IF out_end = Absent THEN Len(buffer_out) ELSE out_end[1]
        w         == DeviceWrite(dev, address, Slice(buffer_out, out_start, oe))
        ie        == IF in_end = Absent THEN Len(buffer_in) ELSE in_end[1]
        in_length == ie - in_start
        r         == DeviceRead(dev, address, in_length)
        stored    == StoreFrom(buffer_in, in_start, r.data, 0)
    IN  IF w.exc # "none" THEN Outcome(<<w>>, w.exc, None, buffer_in)
        ELSE IF in_length <= 0 THEN Outcome(<<w>>, "none", None, buffer_in)
        ELSE IF r.exc # "none" THEN Outcome(<<w, r>>, r.exc, None, buffer_in)
        ELSE Outcome(<<w, r>>, stored.raised, None, stored.buffer)

\* writeto_then_readfrom (lines 75-128): the write is left out when the
\* output slice is empty, and an exception of device.write leaves the method
\* before the read.  `stop` is not read.
writeto_then_readfrom(dev, address, buffer_out, buffer_in, out_start, out_end, in_start, in_end, stop) ==
    LET oe        == IF out_end = Absent THEN Len(buffer_out) ELSE out_end[1]
        out       == Slice(buffer_out, out_start, oe)
        w         == DeviceWrite(dev, address, out)
        written   == IF Len(out) # 0 THEN <<w>> ELSE <<>>
        ie        == IF in_end = Absent THEN Len(buffer_in) ELSE in_end[1]
        in_length == ie - in_start
        r         == DeviceRead(dev, address, in_length)
        stored    == StoreFrom(buffer_in, in_start, r.data, 0)
    IN  IF Len(out) # 0 /\ w.exc # "none"
        THEN Outcome(<<w>>, w.exc, None, buffer_in)
        ELSE IF in_length <= 0 THEN Outcome(written, "none", None, buffer_in)
        ELSE IF r.exc # "none"
        THEN Outcome(Append(written, r), r.exc, None, buffer_in)
        ELSE Outcome(Append(written, r), stored.raised, None, stored.buffer)

\* A try_lock that lets nobody in.
try_lock_Refuses == FALSE

\* A try_lock that is a lock: True only while no thread has it.
try_lock_WhileFree == \A t \in DOMAIN callers : callers[t].at \in {"idle", "refused"}

\* try_lock (lines 130-138) and unlock (lines 140-145): no state is read or
\* written.
try_lock == TRUE
unlock == None

\* scan: range(0x08, 0x78), and the classes of its except clause.
ScanFirst == 8
ScanStop == 120
ScanCaught == {"OSError", "IOError"}

\* The body of the loop of scan for one address (lines 158-163), after the
\* passes in `sofar`: the address is found when its read of one byte
\* returns, passed over when the read raises a class of the except clause;
\* another exception leaves the method, and no later pass runs.
ScanStep(dev, addr, sofar) ==
    IF sofar.raised # "none" THEN sofar
    ELSE LET t == DeviceRead(dev, addr, 1)
         IN  IF t.exc = "none"
             THEN Outcome(Append(sofar.transfers, t), "none",
                          Append(sofar.value, addr), <<>>)
             ELSE IF IsInstance(t.exc, ScanCaught)
             THEN Outcome(Append(sofar.transfers, t), "none", sofar.value, <<>>)
             ELSE Outcome(Append(sofar.transfers, t), t.exc, <<>>, <<>>)

\* `for addr in range(lo, hi)` (line 157): the passes for lo, lo + 1, ...,
\* hi - 1 in this order; the range is halved to keep the evaluation shallow.
RECURSIVE ScanOver(_, _, _, _)
ScanOver(dev, lo, hi, sofar) ==
    IF hi <= lo THEN sofar
    ELSE IF hi = lo + 1 THEN ScanStep(dev, lo, sofar)
    ELSE LET mid   == (lo + hi) \div 2
             first == ScanOver(dev, lo, mid, sofar)
         IN  IF first.raised # "none" THEN first
             ELSE ScanOver(dev, mid, hi, first)

\* scan (lines 147-165): `found` starts empty, and is returned.
scan(dev) == ScanOver(dev, ScanFirst, ScanStop, Outcome(<<>>, "none", <<>>, <<>>))

\* The bridges of the model.  0x3C (60) is where the display is, 0x70 (112)
\* the multiplexer, 0x08 and 0x77 (119) the ends of the scan, 0x50 (80) an
\* address with no device.
NoError == [at |-> {}, exc |-> "none"]
Devices ==
    { [present |-> {60}, write_error |-> NoError, read_error |-> NoError],
      [present |-> {}, write_error |-> NoError, read_error |-> NoError],
      [present |-> {8, 60, 112, 119}, write_error |-> NoError,
       read_error |-> NoError],
      [present |-> {60, 112}, write_error |-> NoError,
       read_error |-> [at |-> {60}, exc |-> "TimeoutError"]],
      [present |-> {60}, write_error |-> NoError,
       read_error |-> [at |-> {80}, exc |-> "RuntimeError"]],
      [present |-> {60}, write_error |-> [at |-> {60}, exc |-> "OSError"],
       read_error |-> NoError],
      [present |-> {60, 80},
       write_error |-> [at |-> {80}, exc |-> "RuntimeError"],
       read_error |-> NoError] }

\* The arguments that a caller passes.
Addresses == {60, 80}
OutBuffers == {[i \in 1..n |-> 16 + i] : n \in 0..MaxLen}
InBuffers == {[i \in 1..n |-> 240 + i] : n \in 0..MaxLen}
Starts == (-1)..(MaxLen + 1)
Ends == {Absent} \cup {Given(e) : e \in (-1)..(MaxLen + 1)}

\* A call of a method with its arguments and its outcome; the arguments that
\* the method does not have keep their defaults.
Called(op, address, buffer_out, buffer_in, out_start, out_end, in_start, in_end, stop, result) ==
    [op |-> op, address |-> address,
     buffer_out |-> buffer_out, buffer_in |-> buffer_in,
     out_start |-> out_start, out_end |-> out_end,
     in_start |-> in_start, in_end |-> in_end, stop |-> stop,
     result |-> result]

NoCall == Called("none", 0, <<>>, <<>>, 0, Absent, 0, Absent, FALSE,
                 Outcome(<<>>, "none", None, <<>>))

\* One thread that uses the bus: where it is ("idle", "refused" by try_lock,
\* "locked", "calling" a method, or in a "transfer" of the bridge), and the
\* transfers that its call has still to make.
IdleCaller == [at |-> "idle", todo |-> <<>>]
Callers == {1, 2}

\* A bus that nothing has called.
BusIdle ==
    /\ call = NoCall
    /\ callers = [t \in Callers |-> IdleCaller]
    /\ in_flight = 0

\* bus.writeto(address, buffer, start=start, end=end, stop=stop)
Writeto ==
    /\ call = NoCall
    /\ \E address \in Addresses, buffer \in OutBuffers, start \in Starts,
          end \in Ends, stop \in BOOLEAN :
           /\ call' = Called("writeto", address, buffer, <<>>, start, end,
                             0, Absent, stop,
                             writeto(device, address, buffer, start, end, stop))
           /\ UNCHANGED <<device, callers, in_flight>>
           /\ UNCHANGED procVars

\* bus.readfrom_into(address, buffer, start=start, end=end)
ReadfromInto ==
    /\ call = NoCall
    /\ \E address \in Addresses, buffer \in InBuffers, start \in Starts,
          end \in Ends :
           /\ call' = Called("readfrom_into", address, <<>>, buffer, 0, Absent,
                             start, end, FALSE,
                             readfrom_into(device, address, buffer, start, end))
           /\ UNCHANGED <<device, callers, in_flight>>
           /\ UNCHANGED procVars

\* bus.writeto_then_readfrom(address, buffer_out, buffer_in, ...)
WritetoThenReadfrom ==
    /\ call = NoCall
    /\ \E address \in Addresses, buffer_out \in OutBuffers,
          buffer_in \in InBuffers, out_start \in Starts, out_end \in Ends,
          in_start \in Starts, in_end \in Ends, stop \in BOOLEAN :
           /\ call' = Called("writeto_then_readfrom", address, buffer_out,
                             buffer_in, out_start, out_end, in_start, in_end,
                             stop,
                             writeto_then_readfrom(device, address, buffer_out,
                                 buffer_in, out_start, out_end, in_start, in_end,
                                 stop))
           /\ UNCHANGED <<device, callers, in_flight>>
           /\ UNCHANGED procVars

\* bus.try_lock() and bus.unlock()
TryLock ==
    /\ call = NoCall
    /\ call' = Called("try_lock", 0, <<>>, <<>>, 0, Absent, 0, Absent, FALSE,
                      Outcome(<<>>, "none", try_lock, <<>>))
    /\ UNCHANGED <<device, callers, in_flight>>
    /\ UNCHANGED procVars

Unlock ==
    /\ call = NoCall
    /\ call' = Called("unlock", 0, <<>>, <<>>, 0, Absent, 0, Absent, FALSE,
                      Outcome(<<>>, "none", unlock, <<>>))
    /\ UNCHANGED <<device, callers, in_flight>>
    /\ UNCHANGED procVars

\* bus.scan()
Scan ==
    /\ call = NoCall
    /\ call' = Called("scan", 0, <<>>, <<>>, 0, Absent, 0, Absent, FALSE,
                      scan(device))
    /\ UNCHANGED <<device, callers, in_flight>>
    /\ UNCHANGED procVars

\* The caller has the outcome, and goes on to its next call.
Returned ==
    /\ call # NoCall
    /\ call' = NoCall
    /\ UNCHANGED <<device, callers, in_flight>>
    /\ UNCHANGED procVars

\* Two threads that share one bus, as busio.I2C is shared: each takes the
\* lock with try_lock until it gets it, calls one method, and unlocks.  The
\* methods that they call, each with whole buffers of MaxLen bytes:
SharedMethods == {"writeto", "readfrom_into", "writeto_then_readfrom", "scan"}

\* The transfers that the method makes on the bridge, one after the other.
TransfersOf(method) ==
    LET out == CHOOSE b \in OutBuffers : Len(b) = MaxLen
        in  == CHOOSE b \in InBuffers : Len(b) = MaxLen
    IN  CASE method = "writeto" ->
                writeto(device, 60, out, 0, Absent, TRUE).transfers
          [] method = "readfrom_into" ->
                readfrom_into(device, 60, in, 0, Absent).transfers
          [] method = "writeto_then_readfrom" ->
                writeto_then_readfrom(device, 60, out, in, 0, Absent, 0,
                                      Absent, FALSE).transfers
          [] OTHER -> scan(device).transfers

\* while not bus.try_lock(): pass
CallerTryLock ==
    \E t \in Callers :
        /\ callers[t].at \in {"idle", "refused"}
        /\ callers' = [callers EXCEPT
                          ![t].at = IF try_lock THEN "locked" ELSE "refused"]
        /\ UNCHANGED <<device, call, in_flight>>
        /\ UNCHANGED procVars

\* The thread that has the lock enters a method.
CallerCall ==
    \E t \in Callers, method \in SharedMethods :
        /\ callers[t].at = "locked"
        /\ callers' = [callers EXCEPT ![t] = [at |-> "calling",
                                              todo |-> TransfersOf(method)]]
        /\ UNCHANGED <<device, call, in_flight>>
        /\ UNCHANGED procVars

\* self.device.write(...) or self.device.read(...) is called: nothing in the
\* method waits for a transfer of another thread.
CallerBegin ==
    \E t \in Callers :
        /\ callers[t].at = "calling"
        /\ callers[t].todo # <<>>
        /\ callers' = [callers EXCEPT ![t].at = "transfer"]
        /\ in_flight' = in_flight + 1
        /\ UNCHANGED <<device, call>>
        /\ UNCHANGED procVars

\* The call of the bridge returns or raises.
CallerEnd ==
    \E t \in Callers :
        /\ callers[t].at = "transfer"
        /\ callers' = [callers EXCEPT ![t] = [at |-> "calling",
                                              todo |-> Tail(callers[t].todo)]]
        /\ in_flight' = in_flight - 1
        /\ UNCHANGED <<device, call>>
        /\ UNCHANGED procVars

\* The method is over, and the thread calls bus.unlock().
CallerUnlock ==
    \E t \in Callers :
        /\ callers[t].at = "calling"
        /\ callers[t].todo = <<>>
        /\ callers' = [callers EXCEPT ![t] = IdleCaller]
        /\ UNCHANGED <<device, call, in_flight>>
        /\ UNCHANGED procVars

(***************************************************************************)
(* Specifications.                                                          *)
(***************************************************************************)
AllModules == {"cp2112", "PIL", "adafruit_ssd1306", "adafruit_sh1106",
               "adafruit_tca9548a"}

\* The process as installed: no variable of the configuration set.
DefaultEnviron == [HOME |-> <<"/">>]

\* The process before its first statement, with a bound on its iterations.
ProcessStart(limit) ==
    /\ pc = "import"
    /\ oled = None
    /\ previous_ip = None
    /\ previous_status = None
    /\ consecutive_errors = 0
    /\ ip_address = None
    /\ status = None
    /\ exit_code = -1
    /\ obs = [ObsInit EXCEPT !.limit = limit]

InitProcess == ProcessStart(MaxIters)

\* The process of oled_display.py: the bus is the display driver's, and the
\* outcome of its transfers is part of the outcome of display_info.
Init ==
    /\ environ = DefaultEnviron
    /\ importable = AllModules
    /\ InitProcess
    /\ device = CHOOSE d \in Devices : d.present = {60}
                                      /\ d.write_error = NoError
                                      /\ d.read_error = NoError
    /\ BusIdle

Next ==
    \/ ModuleInit
    \/ CheckI2C
    \/ InitDisplay
    \/ Setup
    \/ SampleIp
    \/ SampleStatus
    \/ Compare
    \/ Render
    \/ Update
    \/ UpdateStatus
    \/ ResetErrors
    \/ Sleep
    \/ Except
    \/ RetryOrRaise
    \/ Fatal
    \/ RetryWait
    \/ Interrupt
    \/ InterruptHandler

Spec == Init /\ [][Next]_vars

\* Installations with a configuration: the environment, and the libraries
\* that are installed.
NoMuxLibrary == AllModules \ {"adafruit_tca9548a"}

Installations ==
    { [env |-> DefaultEnviron, mods |-> AllModules],
      [env |-> [OLED_DRIVER |-> <<"S", "H", "1", "1", "0", "6">>],
       mods |-> AllModules],
      [env |-> [OLED_DRIVER |-> <<"b", "o", "g", "u", "s">>], mods |-> AllModules],
      [env |-> [OLED_DRIVER |-> ssd1305], mods |-> AllModules],
      [env |-> DefaultEnviron, mods |-> {"cp2112", "PIL"}],
      [env |-> DefaultEnviron, mods |-> AllModules \ {"cp2112"}],
      [env |-> [I2C_ADDRESS |-> <<"z", "z">>], mods |-> AllModules],
      [env |-> [I2C_ADDRESS |-> <<"1", "0", "0">>], mods |-> AllModules],
      [env |-> [MULTIPLEXER_ADDRESS |-> <<"0", "x">>], mods |-> AllModules],
      [env |-> [MULTIPLEXER_CHANNEL |-> <<"x">>], mods |-> AllModules],
      [env |-> [USE_MULTIPLEXER |-> <<"Y", "e", "s">>,
                MULTIPLEXER_CHANNEL |-> <<"8">>],
       mods |-> AllModules],
      [env |-> [USE_MULTIPLEXER |-> <<"1">>], mods |-> NoMuxLibrary] }

InitConfig ==
    /\ \E inst \in Installations :
          /\ environ = inst.env
          /\ importable = inst.mods
    /\ ProcessStart(MaxConfigIters)
    /\ device = CHOOSE d \in Devices : d.present = {60}
                                      /\ d.write_error = NoError
                                      /\ d.read_error = NoError
    /\ BusIdle

SpecConfig == InitConfig /\ [][Next]_vars

\* A CP2112I2CBus over one of the bridges, called by one thread, one method
\* at a time.
InitBus ==
    /\ environ = DefaultEnviron
    /\ importable = AllModules
    /\ InitProcess
    /\ device \in Devices
    /\ BusIdle

NextBus ==
    \/ Writeto
    \/ ReadfromInto
    \/ WritetoThenReadfrom
    \/ TryLock
    \/ Unlock
    \/ Scan
    \/ Returned

SpecBus == InitBus /\ [][NextBus]_vars

\* A CP2112I2CBus that two threads call at the same time.
NextCallers ==
    \/ CallerTryLock
    \/ CallerCall
    \/ CallerBegin
    \/ CallerEnd
    \/ CallerUnlock

SpecCallers == Init /\ [][NextCallers]_vars

(***************************************************************************)
(* Properties of the polling loop.                                          *)
(***************************************************************************)
\* The places where the loop is between two steps of an iteration's outcome:
\* not right after display_info, before lines 355-358 have run.
AtRest == {"sample", "status", "compare", "sleep", "retry_wait"}

\* C1: three consecutive failures of the render end the process with a
\* failure: once display_info has failed max_retries times in a row the loop
\* does not go on (it is in the error handler, or has exited with status 1).
C1_RenderFailuresAreFatal ==
    obs.fail_streak >= max_retries =>
        /\ pc \notin AtRest
        /\ (pc = "exited" /\ obs.interrupts = 0 => exit_code = 1)

\* C2: on every exit of the started loop, by cancellation or by retry
\* exhaustion, the display was blanked (attempted) exactly once.
C2_BlankedOnEveryExit ==
    (/\ pc = "exited"
     /\ \/ (obs.exhausted /\ obs.interrupts = 0)
        \/ (obs.cancelled_at \in InTry /\ obs.interrupts = 1))
        => obs.blanks = 1

\* C3: as long as every sample is the same pair, display_info is called
\* exactly once, with that pair; the other iterations are skipped.
C3_OneRenderForIdenticalSamples ==
    (pc \in {"sleep", "retry_wait"} /\ obs.samples >= 1 /\ obs.same) =>
        /\ obs.renders = 1
        /\ obs.last_rendered = obs.sampled

C3_Witness ==
    /\ pc = "sleep"
    /\ obs.samples >= 3
    /\ obs.same
    /\ obs.branch = "skip"
    /\ obs.renders = 1
    /\ obs.last_rendered = <<Addr5, Streaming>>

\* C4: previous_ip and previous_status are the pair of the last render that
\* succeeded: a render that fails leaves them as they were.
C4_PreviousIsLastSuccess ==
    pc \in AtRest => <<previous_ip, previous_status>> = obs.shown

\* C5: a cancellation that arrives in the loop (sampling, rendering, either
\* sleep, the error handler) ends the loop there: no further statement of
\* the loop runs, the display is blanked once, and the exit status is 0.
C5_CancelExitsClean ==
    /\ (obs.cancelled_at \in InTry => pc \in {"interrupt", "exited"})
    /\ (pc = "exited" /\ obs.cancelled_at \in InTry /\ obs.interrupts = 1
          => exit_code = 0 /\ obs.blanks = 1)

\* The handler of line 376 has tried to blank the display and nothing but
\* an error of the blanking happened: fill and show returned or raised an
\* Exception, and no KeyboardInterrupt left main.
BlankedOrFailed ==
    /\ obs.blanks = 1
    /\ ~obs.uncaught
    /\ ~obs.uncaught
    /\ exit_code = 0

\* C7: sampling never fails the loop: no iteration ends in the error handler
\* because a provider raised.
C7_SampleNeverFails == obs.branch # "raised"

\* C8: after an iteration whose render succeeded the error counter is 0,
\* whatever it was before.
C8_ResetOnSuccess ==
    (pc = "sleep" /\ obs.branch = "render" /\ obs.fail_streak = 0)
        => consecutive_errors = 0

C8_Witness ==
    /\ pc = "sleep"
    /\ obs.branch = "render"
    /\ obs.fail_streak = 0
    /\ obs.errors_before = 2
    /\ consecutive_errors = 0

\* C9: when check_i2c_available finds no bridge the process has exited with
\* status 1: nothing was sampled or rendered, and no blanking was attempted.
C9_NoBridgeIsFatal ==
    obs.check = "none" =>
        /\ pc = "exited"
        /\ exit_code = 1
        /\ oled = None
        /\ ip_address = None /\ status = None
        /\ obs.samples = 0 /\ obs.renders = 0 /\ obs.blanks = 0

C9_Witness ==
    /\ obs.check = "none"
    /\ pc = "exited"
    /\ exit_code = 1
    /\ obs.interrupts = 0

(***************************************************************************)
(* Properties of the configuration.                                         *)
(***************************************************************************)
\* A selection the start-up rejects: a driver that is unknown or has no
\* library, or an address or channel that is not a number.
Rejected ==
    \/ OLED_DRIVER \notin DRIVER_MODULES
    \/ ~I2C_ADDRESS.ok
    \/ ~MULTIPLEXER_ADDRESS.ok
    \/ ~MULTIPLEXER_CHANNEL.ok

\* A selection that is valid and usable: none that the start-up rejects, and,
\* with the multiplexer enabled, a display driven through the multiplexer.
ValidSelection ==
    /\ ~Rejected
    /\ USE_MULTIPLEXER => oled = <<"oled", "multiplexer">>

\* C10 (as claimed): the loop is never entered with an invalid or unusable
\* selection of driver, address or multiplexer.
C10_InvalidSelectionNeverLoops ==
    pc \in InTry => ValidSelection

\* C10 (amended): an unknown driver, or an address or channel that is not a
\* number, is fatal at start-up: no display is made, the loop is not entered
\* and the process exits with status 1.
C10_RejectedSelectionIsFatal ==
    Rejected =>
        /\ pc \in BeforeTry \cup {"exited"}
        /\ oled = None
        /\ obs.samples = 0
        /\ (pc = "exited" /\ obs.interrupts = 0 => exit_code = 1)

C10_Witness ==
    /\ OLED_DRIVER \notin DRIVER_MODULES
    /\ obs.check = "some"
    /\ pc = "exited"
    /\ exit_code = 1
    /\ obs.interrupts = 0

(***************************************************************************)
(* Properties of CP2112I2CBus, over the last call of a method.              *)
(***************************************************************************)
\* The ranges of the last call, with `end` defaulted to the buffer length.
OutEnd == IF call.out_end = Absent THEN Len(call.buffer_out) ELSE call.out_end[1]
InEnd == IF call.in_end = Absent THEN Len(call.buffer_in) ELSE call.in_end[1]

\* 0 <= start <= end <= len(buffer)
OutRangeValid ==
    0 <= call.out_start /\ call.out_start <= OutEnd /\ OutEnd <= Len(call.buffer_out)
InRangeValid ==
    0 <= call.in_start /\ call.in_start <= InEnd /\ InEnd <= Len(call.buffer_in)

OutRangeEmpty == OutRangeValid /\ call.out_start = OutEnd
InRangeEmpty == InRangeValid /\ call.in_start = InEnd
OutRangeNonEmpty == OutRangeValid /\ call.out_start < OutEnd
InRangeNonEmpty == InRangeValid /\ call.in_start < InEnd

\* buffer[start:end] for a valid range, position by position.
OutRangeBytes ==
    [i \in 1..(OutEnd - call.out_start) |-> call.buffer_out[call.out_start + i]]

\* C11: a writeto or a readfrom_into with an empty range (start == end) makes
\* no transfer on the bridge, neither a write nor a read, and returns.
C11_EmptyRangeNoTransfer ==
    /\ (call.op = "writeto" /\ OutRangeEmpty)
          => (call.result.transfers = <<>> /\ call.result.raised = "none")
    /\ (call.op = "readfrom_into" /\ InRangeEmpty)
          => (call.result.transfers = <<>> /\ call.result.raised = "none")

\* C12: a writeto_then_readfrom with an empty input range makes the transfers
\* and has the outcome of writeto with the same address and output range,
\* for every output range, the empty one too.
C12_EmptyInputIsWrite ==
    (call.op = "writeto_then_readfrom" /\ InRangeEmpty /\ OutRangeValid)
       => LET w == writeto(device, call.address, call.buffer_out,
                           call.out_start, call.out_end, call.stop)
          IN  /\ call.result.transfers = w.transfers
              /\ call.result.raised = w.raised

\* C13: a writeto_then_readfrom with an empty output range makes the
\* transfers of readfrom_into with the same address and input range, leaves
\* the input buffer as readfrom_into leaves it, and ends as it ends.
C13_EmptyOutputIsRead ==
    (call.op = "writeto_then_readfrom" /\ OutRangeEmpty)
       => LET r == readfrom_into(device, call.address, call.buffer_in,
                                 call.in_start, call.in_end)
          IN  /\ call.result.transfers = r.transfers
              /\ call.result.buffer = r.buffer
              /\ call.result.raised = r.raised

\* An empty output range, and a read that filled part of the input buffer.
C13_Witness ==
    /\ call.op = "writeto_then_readfrom"
    /\ OutRangeEmpty
    /\ InRangeNonEmpty
    /\ Len(call.result.transfers) = 1
    /\ call.result.raised = "none"
    /\ call.result.buffer # call.buffer_in

\* C14: a writeto with a range 0 <= start < end <= len(buffer) makes exactly
\* one transfer, a write to the address of the call, whose payload is
\* buffer[start:end] in order.
C14_OneWriteOfTheRange ==
    (call.op = "writeto" /\ OutRangeNonEmpty)
       => /\ Len(call.result.transfers) = 1
          /\ call.result.transfers[1].kind = "write"
          /\ call.result.transfers[1].address = call.address
          /\ call.result.transfers[1].data = OutRangeBytes

\* A write of a range inside the buffer that leaves out bytes at both ends.
C14_Witness ==
    /\ call.op = "writeto"
    /\ OutRangeNonEmpty
    /\ call.out_start > 0
    /\ OutEnd < Len(call.buffer_out)
    /\ call.result.raised = "none"

\* C15: a readfrom_into with a range 0 <= start < end <= len(buffer) asks
\* for end - start bytes in one read; the bytes received are in
\* buffer[start:end] in order, and no position outside the range changes.
C15_OneReadIntoTheRange ==
    (call.op = "readfrom_into" /\ InRangeNonEmpty)
       => /\ Len(call.result.transfers) = 1
          /\ call.result.transfers[1].kind = "read"
          /\ call.result.transfers[1].address = call.address
          /\ call.result.transfers[1].length = InEnd - call.in_start
          /\ Len(call.result.buffer) = Len(call.buffer_in)
          /\ \A i \in 1..Len(call.buffer_in) :
                IF call.in_start < i /\ i <= InEnd
                THEN call.result.transfers[1].exc = "none"
                        => call.result.buffer[i] =
                              call.result.transfers[1].data[i - call.in_start]
                ELSE call.result.buffer[i] = call.buffer_in[i]

\* A read into a range inside the buffer, with bytes kept at both ends.
C15_Witness ==
    /\ call.op = "readfrom_into"
    /\ InRangeNonEmpty
    /\ call.in_start > 0
    /\ InEnd < Len(call.buffer_in)
    /\ call.result.raised = "none"
    /\ call.result.buffer # call.buffer_in

\* C16: a writeto_then_readfrom with two non-empty ranges makes its
\* transfers to the address of the call as separate calls of the bridge: one
\* write of the output range first, and after the write has succeeded one
\* read of the length of the input range, two transfers in all; no read
\* comes before the write.
C16_WriteThenRead ==
    (call.op = "writeto_then_readfrom" /\ OutRangeNonEmpty /\ InRangeNonEmpty)
       => LET ts == call.result.transfers
          IN  /\ Len(ts) >= 1
              /\ ts[1].kind = "write"
              /\ ts[1].address = call.address
              /\ ts[1].data = OutRangeBytes
              /\ IF ts[1].exc = "none"
                 THEN /\ Len(ts) = 2
                      /\ ts[2].kind = "read"
                      /\ ts[2].address = call.address
                      /\ ts[2].length = InEnd - call.in_start
                 ELSE Len(ts) = 1

\* Both transfers were made, and the bytes read are in the input buffer.
C16_Witness ==
    /\ call.op = "writeto_then_readfrom"
    /\ OutRangeNonEmpty
    /\ InRangeNonEmpty
    /\ Len(call.result.transfers) = 2
    /\ call.result.raised = "none"
    /\ call.result.buffer # call.buffer_in

\* C17: scan probes each address from 0x08 (8) to 0x77 (119) once, in
\* ascending order, with a read of one byte, and returns the addresses whose
\* read succeeded, in strictly ascending order.
C17_ScanProbesEveryAddress ==
    call.op = "scan"
       => LET ts == call.result.transfers
              found == call.result.value
          IN  /\ call.result.raised = "none"
              /\ Len(ts) = 112
              /\ \A i \in 1..Len(ts) : /\ ts[i].kind = "read"
                                       /\ ts[i].address = 7 + i
                                       /\ ts[i].length = 1
              /\ \A i \in 1..(Len(found) - 1) : found[i] < found[i + 1]
              /\ {found[i] : i \in 1..Len(found)} =
                    {ts[i].address : i \in {k \in 1..Len(ts) : ts[k].exc = "none"}}

\* C18: a probe of scan that fails, whatever the error, counts as no device:
\* the address is not in the result, the addresses after it are probed, and
\* scan returns.
C18_ScanNeverFails ==
    call.op = "scan"
       => LET ts == call.result.transfers
          IN  /\ call.result.raised = "none"
              /\ \A i \in 1..Len(ts) :
                    ts[i].exc # "none"
                       => /\ \A k \in 1..Len(call.result.value) :
                                call.result.value[k] # ts[i].address
                          /\ (ts[i].address < 119 => i < Len(ts))

\* The threads that are inside a method of the bus.
Inside == {t \in Callers : callers[t].at \in {"calling", "transfer"}}

\* C19: with two threads calling the methods at the same time, each after a
\* try_lock that returned True, at most one transfer is in flight on the
\* bridge at any time.
C19_AtMostOneInFlight == in_flight <= 1

\* C19, as the code has it: try_lock refuses nobody, whatever the other
\* thread is doing; a thread has at most one transfer in flight, so that
\* there are never more transfers in flight than threads inside a method,
\* and at most one when the threads do not call at the same time.
C19_OnlyCallersSerialize ==
    /\ \A t \in Callers : callers[t].at # "refused"
    /\ in_flight = Cardinality({t \in Callers : callers[t].at = "transfer"})
    /\ in_flight <= Cardinality(Inside)
    /\ Cardinality(Inside) <= 1 => in_flight <= 1

\* Both threads got the lock, and both have a transfer in flight.
C19_Witness ==
    /\ \A t \in Callers : callers[t].at = "transfer"
    /\ in_flight = 2

\* C20: a writeto, readfrom_into or writeto_then_readfrom tries each of its
\* transfers once: at most one write and one read, the write first; a
\* transfer that fails is the last one of the call, and its exception is the
\* outcome of the call.
C20_NoRetry ==
    call.op \in {"writeto", "readfrom_into", "writeto_then_readfrom"}
       => LET ts == call.result.transfers
          IN  /\ Len(ts) <= (IF call.op = "writeto_then_readfrom" THEN 2 ELSE 1)
              /\ Len(ts) = 2 => (ts[1].kind = "write" /\ ts[2].kind = "read")
              /\ \A i \in 1..Len(ts) :
                    ts[i].exc # "none"
                       => (i = Len(ts) /\ call.result.raised = ts[i].exc)

\* The write of a writeto_then_readfrom failed, with a read still to make.
C20_Witness ==
    /\ call.op = "writeto_then_readfrom"
    /\ OutRangeNonEmpty
    /\ InRangeNonEmpty
    /\ Len(call.result.transfers) = 1
    /\ call.result.transfers[1].kind = "write"
    /\ call.result.raised = "RuntimeError"

\* C21: try_lock returns True in every state, also when it is called again
\* with no unlock in between, and neither try_lock nor unlock makes a
\* transfer on the bridge or changes the state of the adapter: a step in
\* which a thread's try_lock or unlock returns leaves the bridge, its
\* transfers in flight and the other thread as they were.
C21_LockIsNoOp ==
    [][\A t \in Callers :
          /\ callers'[t].at # "refused"
          /\ (callers[t].at \in {"idle", "refused"} /\ callers'[t] # callers[t])
                => /\ callers'[t] = [at |-> "locked", todo |-> <<>>]
                   /\ in_flight' = in_flight
                   /\ device' = device
                   /\ \A u \in Callers \ {t} : callers'[u] = callers[u]
          /\ (callers[t].at = "calling" /\ callers'[t].at = "idle")
                => /\ in_flight' = in_flight
                   /\ device' = device
                   /\ \A u \in Callers \ {t} : callers'[u] = callers[u]]_vars

\* try_lock has returned True twice, with no unlock in between and no
\* transfer made.
C21_Witness ==
    /\ \A t \in Callers : callers[t].at = "locked"
    /\ in_flight = 0

\* C22: `stop` has no effect: with the same address, buffers and ranges a
\* writeto and a writeto_then_readfrom make the same transfers, leave the
\* same buffer and end the same way with stop=True and with stop=False.
C22_StopIsIgnored ==
    /\ call.op = "writeto"
          => call.result = writeto(device, call.address, call.buffer_out,
                                   call.out_start, call.out_end, ~call.stop)
    /\ call.op = "writeto_then_readfrom"
          => call.result =
                writeto_then_readfrom(device, call.address, call.buffer_out,
                                      call.buffer_in, call.out_start,
                                      call.out_end, call.in_start, call.in_end,
                                      ~call.stop)

\* A writeto with stop=False whose write was made and succeeded.
C22_Witness ==
    /\ call.op = "writeto"
    /\ ~call.stop
    /\ OutRangeNonEmpty
    /\ Len(call.result.transfers) = 1
    /\ call.result.raised = "none"

\* C23: writeto checks 0 <= start <= end <= len(buffer) before it calls the
\* bridge: with start > end, or end > len(buffer), it makes no write.
C23_InvalidRangeNoWrite ==
    (call.op = "writeto"
        /\ (call.out_start > OutEnd \/ OutEnd > Len(call.buffer_out)))
       => call.result.transfers = <<>>

(***************************************************************************)
(* More properties of the polling loop.                                     *)
(***************************************************************************)
\* C24: after an iteration that failed without using up the retries the
\* loop waits the retry delay and goes back to the sampling: both providers
\* are called again, and the next display_info gets the values of these
\* calls, not those of the failed attempt.
C24_RetryResamples ==
    [][/\ (pc = "except" /\ pc' \notin {"except", "interrupt"})
          => (pc' = "counted" /\ consecutive_errors' = consecutive_errors + 1)
       /\ (pc = "counted" /\ consecutive_errors < max_retries
              /\ pc' \notin {"counted", "interrupt"})
          => (pc' = "retry_wait" /\ consecutive_errors' = consecutive_errors)
       /\ (pc = "retry_wait" /\ pc' \notin {"retry_wait", "interrupt"})
          => (pc' = "sample" /\ obs'.queried = {})
       /\ (pc' = "render")
          => (obs'.queried = {"ip", "status"} /\ Sampled' = obs'.sampled)
       /\ (pc = "render" /\ pc' \notin {"render", "interrupt"})
          => obs'.last_rendered = obs.sampled]_vars

\* display_info is about to be called in the iteration after a retry delay.
C24_Witness ==
    /\ pc = "render"
    /\ obs.after_retry
    /\ consecutive_errors > 0
    /\ obs.queried = {"ip", "status"}

\* C25: consecutive_errors is between 0 and max_retries in every state, and
\* below max_retries wherever the loop is about to go on with an iteration
\* (at the sampling, in the poll sleep and in the retry delay).
C25_ErrorsBounded ==
    /\ 0 <= consecutive_errors
    /\ consecutive_errors <= max_retries
    /\ pc \in {"sample", "status", "sleep", "retry_wait"}
          => consecutive_errors < max_retries

\* The last retry delay before the bound.
C25_Witness ==
    /\ pc = "retry_wait"
    /\ consecutive_errors = max_retries - 1

\* C26: an iteration whose sample is the pair of the last update changes
\* nothing: consecutive_errors, previous_ip and previous_status are the same
\* after the comparison and after its sleep, so that the errors counted
\* before it still count.
C26_SkipKeepsErrors ==
    [][/\ (pc = "compare" /\ pc' = "sleep")
          => /\ Sampled = <<previous_ip, previous_status>>
             /\ consecutive_errors' = consecutive_errors
             /\ previous_ip' = previous_ip
             /\ previous_status' = previous_status
       /\ (pc = "sleep" /\ obs.branch = "skip" /\ pc' = "sample")
          => /\ consecutive_errors' = consecutive_errors
             /\ previous_ip' = previous_ip
             /\ previous_status' = previous_status
       /\ obs'.skipped_in_streak => consecutive_errors' > 0]_vars

\* Failures with an iteration that changed nothing between them have used
\* up the retries: main has given up.
C26_Witness ==
    /\ obs.exhausted
    /\ obs.skipped_in_streak
    /\ consecutive_errors = max_retries
    /\ exit_code = 1

TypeOK ==
    /\ pc \in BeforeTry \cup InTry \cup InFatal \cup {"interrupt", "exited"}
    /\ consecutive_errors \in 0..max_retries
    /\ exit_code \in {-1, 0, 1, 2, 130}
=============================================================================
